---- MODULE Spec2Model ----
(***************************************************************************)
(* Model of car_picker/app/options.py: generate_options, the distractor    *)
(* selector of the car quiz, with its helpers _candidate_indices, try_add  *)
(* and build_option_label.  One call of generate_options is a run of the   *)
(* state machine below; each action is one block of the function body.     *)
(*                                                                         *)
(* The dataframe is the one load_metadata returns (reset_index(drop=True)):*)
(* a sequence of rows whose index is 0 .. len(df)-1.  Strings that the     *)
(* code transforms (difficulty.lower()) are sequences of characters.  The  *)
(* random generator is a stream of draws: rng is the position in the       *)
(* stream, and the value of each draw is chosen by the environment.        *)
(*                                                                         *)
(* Spec is one call.  SpecTwin runs a second call beside it, on the same   *)
(* frame from the same generator state, to compare the outcomes of two     *)
(* calls.                                                                  *)
(***************************************************************************)
EXTENDS Integers, Sequences, FiniteSets, TLC

(* ---------------- bounds of the model ---------------- *)
MaxRecords == 3
MaxTotal == 4
\* the longest frame of SpecCrowd for which every record is requested
MaxCrowdAll == 7
\* the largest number of labelled rows the quiz session loads
MaxLabels == 11

(* ---------------- input domains ---------------- *)
Makes == {"Kia", "BMW"}
Models == {"Sonata", "X3"}
Years == {"2019", "2020"}

\* build_row: make_trans.get(make_en, make_en), model_trans.get(model_en, model_en)
KoName(en) ==
    IF en = "Kia" THEN "Gia" ELSE IF en = "Sonata" THEN "Ssonata" ELSE en

\* The columns generate_options compares.  The other columns of a row are
\* functions of these (build_row), see LabelRow.
Row(mk, md, y) == [make_en |-> mk, model_en |-> md, year |-> y]

\* the row with the columns build_option_label reads
LabelRow(row) ==
    [make_en |-> row.make_en, make_ko |-> KoName(row.make_en),
     model_en |-> row.model_en, model_ko |-> KoName(row.model_en),
     year |-> row.year, variant |-> ""]

Rows == { Row(mk, md, y) : mk \in Makes, md \in Models, y \in Years }

SeqsUpTo(S, n) == UNION { [1..k -> S] : k \in 0..n }

\* Frames of up to MaxRecords rows.  The code compares makes, models and
\* years only for equality, so the first row is fixed; the other rows range
\* over every make, model and year.
BaseFrames ==
    { d \in SeqsUpTo(Rows, MaxRecords) : d # <<>> => d[1] = Row("Kia", "Sonata", "2019") }

easy == <<"e", "a", "s", "y">>
medium == <<"m", "e", "d", "i", "u", "m">>
hard == <<"h", "a", "r", "d">>

Difficulties == { easy, <<"E", "a", "S", "Y">>, medium, hard, <<"P", "r", "o">> }

(* ---------------- helpers ---------------- *)
Max(a, b) == IF a >= b THEN a ELSE b
Min(a, b) == IF a <= b THEN a ELSE b

\* str.lower() on the characters that occur in the difficulty strings
LowerChar(c) ==
    CASE c = "E" -> "e"
      [] c = "S" -> "s"
      [] c = "Y" -> "y"
      [] c = "P" -> "p"
      [] OTHER -> c

Lower(s) == [i \in 1..Len(s) |-> LowerChar(s[i])]

\* df.index of a frame after reset_index(drop=True)
Index(d) == 0..(Len(d) - 1)

\* df.loc[idx]
Loc(d, idx) == d[idx + 1]

\* df.index.tolist(): the index in row order
IndexList(d) == [i \in 1..Len(d) |-> i - 1]

\* variant: an unknown difficulty falls back to the "easy" plan
difficulty_plan_easy_default(d) ==
    CASE d = medium -> [same_make |-> 4, same_model |-> 2, same_year |-> 2]
      [] d = hard   -> [same_make |-> 6, same_model |-> 3, same_year |-> 1]
      [] OTHER      -> [same_make |-> 2, same_model |-> 1, same_year |-> 1]

difficulty_plan(d) ==
    CASE d = easy -> [same_make |-> 2, same_model |-> 1, same_year |-> 1]
      [] d = hard -> [same_make |-> 6, same_model |-> 3, same_year |-> 1]
      [] OTHER    -> [same_make |-> 4, same_model |-> 2, same_year |-> 2]

\* Longer frames, of rows of one model and year: the correct row, enough
\* rows of one make to exhaust the same_make quota of "easy" and leave one
\* over, and room for a row of the other make.
FleetSizes ==
    (difficulty_plan(easy).same_make + 2)..(difficulty_plan(easy).same_make + 3)

FleetFrames ==
    UNION { [1..k -> { Row(mk, "Sonata", "2019") : mk \in Makes }] : k \in FleetSizes }

Dataframes == BaseFrames \cup FleetFrames

\* The frame that exhausts a same_make quota of q: the correct row, q + 1
\* rows of its make that no other sub-phase selects (another model, another
\* year), and one row of another make that no sub-phase selects.
CrowdFrame(q) ==
    <<Row("Kia", "Sonata", "2019")>> \o [i \in 1..(q + 1) |-> Row("Kia", "X3", "2020")]
        \o <<Row("BMW", "X3", "2020")>>

\* requests on a crowd frame: all records but one, and all records
CrowdRequests(d) == {Len(d) - 1} \cup { n \in {Len(d)} : n <= MaxCrowdAll }

\* the Python slice s[:n] for n >= 0
\* variant: the slice keeps the whole list
TakeAll(s, n) == s

Take(s, n) == SubSeq(s, 1, Min(n, Len(s)))

\* list(selected_set): CPython iterates a set of small non-negative ints in
\* ascending order (hash(i) = i, one slot per value)
RECURSIVE ListOfSet(_)
ListOfSet(S) ==
    IF S = {} THEN <<>>
    ELSE LET m == CHOOSE x \in S : \A y \in S : x <= y
         IN <<m>> \o ListOfSet(S \ {m})

(* ---------------- random.Random.shuffle ---------------- *)
\* the draws of one shuffle of a list of n items: for i = n-1 down to 1 the
\* generator returns j = randbelow(i + 1)
Draws(n) == { js \in [1..(n - 1) -> 0..(n - 1)] : \A i \in 1..(n - 1) : js[i] <= i }

Swap(x, i, j) == [x EXCEPT ![i + 1] = x[j + 1], ![j + 1] = x[i + 1]]

RECURSIVE ShuffleFrom(_, _, _)
ShuffleFrom(x, js, i) ==
    IF i < 1 THEN x ELSE ShuffleFrom(Swap(x, i, js[i]), js, i - 1)

Shuffle(x, js) == ShuffleFrom(x, js, Len(x) - 1)

\* number of draws a shuffle of x consumes
DrawCount(x) == Max(0, Len(x) - 1)

(* ---------------- build_option_label ---------------- *)
\* the label is kept as the list of its parts; " ".join is not modelled
build_option_label(row) ==
    LET make == IF row.make_ko # "" THEN <<row.make_ko, "(", row.make_en, ")">>
                ELSE <<row.make_en>>
        model == IF row.model_ko # "" THEN <<row.model_ko, "(", row.model_en, ")">>
                 ELSE <<row.model_en>>
        components == <<make, model, <<row.year>>>> \o
                      (IF row.variant # "" THEN <<<<row.variant>>>> ELSE <<>>)
    IN SelectSeq(components, LAMBDA part : part # <<"">>)

OptionItem(d, idx) ==
    [row_idx |-> idx, label |-> build_option_label(LabelRow(Loc(d, idx)))]

(* ---------------- state ---------------- *)
VARIABLES
    df,             \* argument: the dataframe
    correct_idx,    \* argument
    requested,      \* argument total_options as passed by the caller
    difficulty_arg, \* argument difficulty as passed by the caller
    pc,             \* position in generate_options
    total_options,  \* local: the clamped total
    difficulty,     \* local: difficulty.lower()
    selected_set,   \* local
    rng,            \* number of draws consumed from the generator
    added,          \* history: identifiers each phase added to selected_set
    result,         \* the row_idx of the returned OptionItems, in order
    error,          \* the exception raised, "none" if none
    twin,           \* a second call on the same df, correct_idx and requested,
                    \* started with the generator in the same state and stepped
                    \* alongside the first; pc "off" when there is none
    session_state,  \* st.session_state of the quiz page
    page,           \* what the last script run of main left on the screen
    total_available \* len(df) of the cached load_metadata frame

vars == <<df, correct_idx, requested, difficulty_arg, pc, total_options,
          difficulty, selected_set, rng, added, result, error, twin,
          session_state, page, total_available>>

session == <<session_state, page, total_available>>

args == <<df, correct_idx, requested, difficulty_arg>>

NoAdded == [same_make |-> {}, same_model |-> {}, same_year |-> {}, fill |-> {}]

\* st.session_state after clear(): no key but "difficulty"; an absent key is
\* the value its .get default or its first assignment gives
Cleared(selected_difficulty) ==
    [quiz_initialized |-> FALSE, current_question_idx |-> 0, total_questions |-> 0,
     score |-> 0, history |-> <<>>, current_options |-> "None",
     summary_logged |-> FALSE, ended_early |-> FALSE, ended_early_allowed |-> FALSE,
     difficulty |-> selected_difficulty]

\* no quiz page is open
NoSession ==
    /\ session_state = Cleared(medium)
    /\ page = "none"
    /\ total_available = 0

NewCall(darg, at) ==
    [difficulty_arg |-> darg, pc |-> at, total_options |-> 0, difficulty |-> <<>>,
     selected_set |-> {}, rng |-> 0, result |-> <<>>, error |-> "none"]

\* correct_idx as the caller passes it: the first or the last row of the
\* frame, or an identifier below or above the index
CorrectChoices(d) == {-1, 0, Len(d) - 1, Len(d)}

InitCall ==
    /\ df \in Dataframes
    /\ correct_idx \in CorrectChoices(df)
    /\ requested \in 1..MaxTotal
    /\ difficulty_arg \in Difficulties
    /\ pc = "start"
    /\ total_options = 0
    /\ difficulty = <<>>
    /\ selected_set = {}
    /\ rng = 0
    /\ added = NoAdded
    /\ result = <<>>
    /\ error = "none"
    /\ NoSession

\* one call
Init == InitCall /\ twin = NewCall(difficulty_arg, "off")

Recognized(darg) == Lower(darg) \in {easy, medium, hard}

\* two calls from the same generator state: with the same difficulty, or
\* an unrecognized difficulty next to "medium"
InitTwin ==
    /\ InitCall
    /\ twin \in { NewCall(darg, "start") :
                    darg \in {difficulty_arg} \cup
                             (IF Recognized(difficulty_arg) THEN {} ELSE {medium}) }

(* ---------------- generate_options: validation and set-up ---------------- *)
\* variant: the floor of 2 is missing
ClampTotalNoFloor(total, available_count) == Min(total, available_count)

\* variant: the cap at the dataset size is missing
ClampTotalNoCap(total, available_count) == Max(2, total)

\* total_options = max(2, min(total_options, available_count))
ClampTotal(total, available_count) == Max(2, Min(total, available_count))

\* variant: an unknown correct_idx is reported as ValueError
ValidationErrorWrongKind(d, cidx) ==
    IF Len(d) = 0 THEN "ValueError"
    ELSE IF cidx \notin Index(d) THEN "ValueError"
    ELSE "none"

\* variant: correct_idx is looked up before the frame is checked for rows
ValidationErrorKeyFirst(d, cidx) ==
    IF cidx \notin Index(d) THEN "KeyError"
    ELSE IF Len(d) = 0 THEN "ValueError"
    ELSE "none"

\* the two precondition checks, in the order the code makes them
ValidationError(d, cidx) ==
    IF Len(d) = 0 THEN "ValueError"
    ELSE IF cidx \notin Index(d) THEN "KeyError"
    ELSE "none"

\* the locals after lines 61-98, as a record
StartCall(d, cidx, total, darg) ==
    LET err == ValidationError(d, cidx)
    IN [error |-> err,
        total_options |-> IF err = "ValueError" THEN 0 ELSE ClampTotal(total, Len(d)),
        selected_set |-> IF err = "none" THEN {cidx} ELSE {},
        difficulty |-> IF err = "none" THEN Lower(darg) ELSE <<>>,
        pc |-> IF err = "none" THEN "same_make" ELSE "raised"]

TwinStart ==
    IF twin.pc # "start" THEN twin' = twin
    ELSE LET c == StartCall(df, correct_idx, requested, twin.difficulty_arg)
         IN twin' = [twin EXCEPT !.error = c.error, !.total_options = c.total_options,
                                 !.selected_set = c.selected_set,
                                 !.difficulty = c.difficulty, !.pc = c.pc]

Start ==
    /\ pc = "start"
    /\ LET c == StartCall(df, correct_idx, requested, difficulty_arg)
       IN /\ error' = c.error
          /\ total_options' = c.total_options
          /\ selected_set' = c.selected_set
          /\ difficulty' = c.difficulty
          /\ pc' = c.pc
    /\ TwinStart
    /\ UNCHANGED <<session, args, rng, added, result>>

(* ---------------- the generator shared by the two calls ---------------- *)
\* variant: the shuffles use a generator of their own, not the injected one
SameStreamUnseeded(pos1, pos2, n1, n2, js1) == Draws(n2)

\* rng.shuffle draws from the injected generator: a shuffle of n2 items at
\* position pos2 of the stream gets the draws js1 that a shuffle of n1 = n2
\* items got at pos1 = pos2, and any draws otherwise
SameStream(pos1, pos2, n1, n2, js1) ==
    IF pos1 = pos2 /\ n1 = n2 THEN {js1} ELSE Draws(n2)

(* ---------------- _candidate_indices and try_add ---------------- *)
\* variant: the exclude list is ignored
_candidate_indices_no_exclude(d, mask, exclude) ==
    SelectSeq(IndexList(d), LAMBDA idx : mask[idx])

\* mask is a boolean column over the index of d
_candidate_indices(d, mask, exclude) ==
    SelectSeq(IndexList(d), LAMBDA idx : mask[idx] /\ idx \notin exclude)

\* the filter try_add applies when different_make is set
DifferentMakeFilter(d, cidx, candidates) ==
    SelectSeq(candidates, LAMBDA idx : Loc(d, idx).make_en # Loc(d, cidx).make_en)

\* for idx in lst: selected.add(idx); if len(selected) >= total: stop
RECURSIVE AddUntil(_, _, _)
AddUntil(selected, lst, total) ==
    IF lst = <<>> THEN selected
    ELSE LET s1 == selected \cup {Head(lst)}
         IN IF Cardinality(s1) >= total THEN s1
            ELSE AddUntil(s1, Tail(lst), total)

\* history: the identifiers that loop passes to selected_set.add
RECURSIVE AddCalls(_, _, _)
AddCalls(selected, lst, total) ==
    IF lst = <<>> THEN {}
    ELSE LET s1 == selected \cup {Head(lst)}
         IN {Head(lst)} \cup (IF Cardinality(s1) >= total THEN {}
                              ELSE AddCalls(s1, Tail(lst), total))

\* the early return of try_add
TryAddSkips(selected, total, target) == Cardinality(selected) >= total \/ target <= 0

\* the candidates try_add shuffles; none when it returns early
TryAddCandidates(d, cidx, selected, total, mask, target, different_make) ==
    IF TryAddSkips(selected, total, target) THEN <<>>
    ELSE LET candidates == _candidate_indices(d, mask, selected)
         IN IF different_make THEN DifferentMakeFilter(d, cidx, candidates)
            ELSE candidates

\* selected_set after the loop over candidates[:target]
TryAddSelect(selected, total, shuffled, target) ==
    AddUntil(selected, Take(shuffled, target), total)

\* the three masks of the quota phase
SameMakeMask(d, cidx) ==
    [idx \in Index(d) |-> Loc(d, idx).make_en = Loc(d, cidx).make_en /\ idx # cidx]

\* variant: the year is not compared
SameModelMaskAnyYear(d, cidx) ==
    [idx \in Index(d) |-> Loc(d, idx).model_en = Loc(d, cidx).model_en /\ idx # cidx]

SameModelMask(d, cidx) ==
    [idx \in Index(d) |-> /\ Loc(d, idx).model_en = Loc(d, cidx).model_en
                          /\ Loc(d, idx).year # Loc(d, cidx).year
                          /\ idx # cidx]

SameYearMask(d, cidx) ==
    [idx \in Index(d) |-> Loc(d, idx).year = Loc(d, cidx).year /\ idx # cidx]

PhaseMask(phase, d, cidx) ==
    CASE phase = "same_make"  -> SameMakeMask(d, cidx)
      [] phase = "same_model" -> SameModelMask(d, cidx)
      [] phase = "same_year"  -> SameYearMask(d, cidx)

\* variant: the same_year call never asks for the make filter
DifferentMakeNever(phase, diff) == FALSE

\* different_make=(difficulty == "easy"), passed by the same_year call only
DifferentMake(phase, diff) == phase = "same_year" /\ diff = easy

PhaseCandidates(phase, d, cidx, selected, total, diff) ==
    TryAddCandidates(d, cidx, selected, total, PhaseMask(phase, d, cidx),
                     difficulty_plan(diff)[phase], DifferentMake(phase, diff))

TwinTryAdd(phase, next, n, js) ==
    IF twin.pc # phase THEN twin' = twin
    ELSE LET candidates == PhaseCandidates(phase, df, correct_idx, twin.selected_set,
                                           twin.total_options, twin.difficulty)
         IN \E jsT \in SameStream(rng, twin.rng, n, Len(candidates), js) :
              twin' = [twin EXCEPT
                    !.selected_set = TryAddSelect(@, twin.total_options,
                                                  Shuffle(candidates, jsT),
                                                  difficulty_plan(twin.difficulty)[phase]),
                    !.rng = @ + DrawCount(candidates),
                    !.pc = next]

try_add(phase, next) ==
    /\ pc = phase
    /\ LET candidates == PhaseCandidates(phase, df, correct_idx, selected_set,
                                         total_options, difficulty)
       IN \E js \in Draws(Len(candidates)) :
            LET shuffled == Shuffle(candidates, js)
                target == difficulty_plan(difficulty)[phase]
            IN /\ selected_set' = TryAddSelect(selected_set, total_options,
                                               shuffled, target)
               /\ rng' = rng + DrawCount(candidates)
               /\ added' = [added EXCEPT
                     ![phase] = AddCalls(selected_set, Take(shuffled, target),
                                         total_options)]
               /\ TwinTryAdd(phase, next, Len(candidates), js)
    /\ pc' = next
    /\ UNCHANGED <<session, args, total_options, difficulty, result, error>>

TryAddSameMake == try_add("same_make", "same_model")

TryAddSameModel == try_add("same_model", "same_year")

TryAddSameYear == try_add("same_year", "fill")

(* ---------------- fill phase ---------------- *)
\* remaining_indices; none when the selected set is already full
\* variant: the fill phase is skipped when one identifier is missing
RemainingIndicesOffByOne(d, selected, total) ==
    IF Cardinality(selected) < total - 1
    THEN SelectSeq(IndexList(d), LAMBDA idx : idx \notin selected)
    ELSE <<>>

RemainingIndices(d, selected, total) ==
    IF Cardinality(selected) < total
    THEN SelectSeq(IndexList(d), LAMBDA idx : idx \notin selected)
    ELSE <<>>

\* variant: the two orders are exchanged between "easy" and "hard"
OrderedIndicesExchanged(d, cidx, diff, remaining) ==
    LET different_make_indices ==
            SelectSeq(remaining, LAMBDA idx : Loc(d, idx).make_en # Loc(d, cidx).make_en)
        same_make_indices ==
            SelectSeq(remaining, LAMBDA idx : Loc(d, idx).make_en = Loc(d, cidx).make_en)
    IN IF diff = easy THEN same_make_indices \o different_make_indices
       ELSE IF diff = hard THEN different_make_indices \o same_make_indices
       ELSE remaining

\* ordered_indices, from the shuffled remaining_indices
OrderedIndices(d, cidx, diff, remaining) ==
    LET different_make_indices ==
            SelectSeq(remaining, LAMBDA idx : Loc(d, idx).make_en # Loc(d, cidx).make_en)
        same_make_indices ==
            SelectSeq(remaining, LAMBDA idx : Loc(d, idx).make_en = Loc(d, cidx).make_en)
    IN IF diff = easy THEN different_make_indices \o same_make_indices
       ELSE IF diff = hard THEN same_make_indices \o different_make_indices
       ELSE remaining

FillSelect(d, cidx, diff, selected, total, shuffled) ==
    AddUntil(selected, OrderedIndices(d, cidx, diff, shuffled), total)

TwinFill(n, js) ==
    IF twin.pc # "fill" THEN twin' = twin
    ELSE LET remaining_indices ==
                 RemainingIndices(df, twin.selected_set, twin.total_options)
         IN \E jsT \in SameStream(rng, twin.rng, n, Len(remaining_indices), js) :
              twin' = [twin EXCEPT
                    !.selected_set = FillSelect(df, correct_idx, twin.difficulty, @,
                                                twin.total_options,
                                                Shuffle(remaining_indices, jsT)),
                    !.rng = @ + DrawCount(remaining_indices),
                    !.pc = "finish"]

Fill ==
    /\ pc = "fill"
    /\ LET remaining_indices == RemainingIndices(df, selected_set, total_options)
       IN \E js \in Draws(Len(remaining_indices)) :
            LET shuffled == Shuffle(remaining_indices, js)
            IN /\ selected_set' = FillSelect(df, correct_idx, difficulty, selected_set,
                                             total_options, shuffled)
               /\ rng' = rng + DrawCount(remaining_indices)
               /\ added' = [added EXCEPT
                     !.fill = AddCalls(selected_set,
                                       OrderedIndices(df, correct_idx, difficulty,
                                                      shuffled),
                                       total_options)]
               /\ TwinFill(Len(remaining_indices), js)
    /\ pc' = "finish"
    /\ UNCHANGED <<session, args, total_options, difficulty, result, error>>

(* ---------------- final check, shuffle and OptionItems ---------------- *)
\* variant: the check tolerates one missing option
InsufficientOffByOne(selected_list, total) == Len(selected_list) < total - 1

\* if len(selected_list) < total_options: raise RuntimeError
Insufficient(selected_list, total) == Len(selected_list) < total

\* the list the final shuffle works on; none when the call raises
FinalList(selected, total) ==
    LET selected_list == ListOfSet(selected)
    IN IF Insufficient(selected_list, total) THEN <<>> ELSE selected_list

\* variant: the slice drops the first identifier, selected_list[1:total_options]
BuildOptionsSkipFirst(d, selected_list, total) ==
    LET kept == SubSeq(selected_list, 2, Min(total, Len(selected_list)))
    IN [i \in 1..Len(kept) |-> OptionItem(d, kept[i]).row_idx]

\* the identifiers of [OptionItem(...) for idx in selected_list[:total_options]]
BuildOptions(d, selected_list, total) ==
    LET kept == Take(selected_list, total)
    IN [i \in 1..Len(kept) |-> OptionItem(d, kept[i]).row_idx]

\* the returned list
Options(d, ids) == [i \in 1..Len(ids) |-> OptionItem(d, ids[i])]

TwinFinish(n, js) ==
    IF twin.pc # "finish" THEN twin' = twin
    ELSE IF Insufficient(ListOfSet(twin.selected_set), twin.total_options)
    THEN twin' = [twin EXCEPT !.error = "RuntimeError", !.pc = "raised"]
    ELSE LET selected_list == FinalList(twin.selected_set, twin.total_options)
         IN \E jsT \in SameStream(rng, twin.rng, n, Len(selected_list), js) :
              twin' = [twin EXCEPT
                    !.result = BuildOptions(df, Shuffle(selected_list, jsT),
                                            twin.total_options),
                    !.rng = @ + DrawCount(selected_list),
                    !.pc = "returned"]

Finish ==
    /\ pc = "finish"
    /\ IF Insufficient(ListOfSet(selected_set), total_options)
       THEN /\ error' = "RuntimeError"
            /\ pc' = "raised"
            /\ TwinFinish(0, <<>>)
            /\ UNCHANGED <<rng, result>>
       ELSE LET selected_list == FinalList(selected_set, total_options)
            IN \E js \in Draws(Len(selected_list)) :
                 /\ result' = BuildOptions(df, Shuffle(selected_list, js), total_options)
                 /\ rng' = rng + DrawCount(selected_list)
                 /\ pc' = "returned"
                 /\ error' = error
                 /\ TwinFinish(Len(selected_list), js)
    /\ UNCHANGED <<session, args, total_options, difficulty, selected_set, added>>

Next ==
    \/ Start
    \/ TryAddSameMake
    \/ TryAddSameModel
    \/ TryAddSameYear
    \/ Fill
    \/ Finish

Spec == Init /\ [][Next]_vars

\* one call on the crowd frame of its difficulty, the first row the correct one
InitCrowd ==
    /\ difficulty_arg \in Difficulties
    /\ df = CrowdFrame(difficulty_plan(Lower(difficulty_arg)).same_make)
    /\ correct_idx \in {0, Len(df)}
    /\ requested \in CrowdRequests(df)
    /\ pc = "start"
    /\ total_options = 0
    /\ difficulty = <<>>
    /\ selected_set = {}
    /\ rng = 0
    /\ added = NoAdded
    /\ result = <<>>
    /\ error = "none"
    /\ twin = NewCall(difficulty_arg, "off")
    /\ NoSession

SpecCrowd == InitCrowd /\ [][Next]_vars

(* ---------------- the quiz session (streamlit_app.main) ---------------- *)
POINTS_PER_QUESTION == 10
TOTAL_QUESTIONS == 10

DIFFICULTY_ORDER == <<easy, medium, hard>>

score_answer(is_correct) == IF is_correct THEN POINTS_PER_QUESTION ELSE 0

\* st.stop() of init_session_state: nothing initialized and no labelled row
InitStops(ss, n) == ~ss.quiz_initialized /\ n = 0

init_session_state(ss, n, selected_difficulty) ==
    IF ss.quiz_initialized \/ n = 0 THEN ss
    ELSE [ss EXCEPT !.quiz_initialized = TRUE,
                    !.current_question_idx = 0,
                    !.total_questions = Min(TOTAL_QUESTIONS, n),
                    !.score = 0,
                    !.history = <<>>,
                    !.current_options = "None",
                    !.summary_logged = FALSE,
                    !.ended_early = FALSE,
                    !.difficulty = selected_difficulty]

has_finished(ss) ==
    ss.current_question_idx >= ss.total_questions \/ ss.ended_early

\* ensure_current_options asks generate_options for min(10, len(df)) options;
\* the call raises when the clamped total exceeds the rows there are
OptionsRaise(ss, n) ==
    ss.current_options = "None" /\ ClampTotal(Min(10, n), n) > n

\* selected_option: no option, the option of the correct row, another option
Selections == {"None", "correct", "other"}

handle_submission(ss, selected_option) ==
    IF selected_option = "None" THEN ss
    ELSE LET is_correct == selected_option = "correct"
         IN [ss EXCEPT !.score = @ + score_answer(is_correct),
                       !.history = Append(@, is_correct),
                       !.current_question_idx = @ + 1,
                       !.current_options = "None"]

\* variant: the last question already counts as past the end
can_end_at_last(ss) ==
    ss.score >= 60 \/ ss.current_question_idx + 1 >= ss.total_questions

can_end(ss) ==
    ss.score >= 60 \/ ss.current_question_idx + 1 > ss.total_questions

\* one script run of main with no button clicked and the difficulty radio
\* left as it is: the session state and the page it leaves
Render(ss, n) ==
    LET s1 == init_session_state(ss, n, ss.difficulty)
    IN IF InitStops(ss, n) THEN [session_state |-> ss, page |-> "stopped"]
       ELSE IF has_finished(s1)
       THEN [session_state |-> [s1 EXCEPT !.summary_logged = TRUE],
             page |-> "summary"]
       ELSE IF OptionsRaise(s1, n)
       THEN [session_state |-> s1, page |-> "exception"]
       ELSE [session_state |-> [s1 EXCEPT !.current_options = "list"],
             page |-> "question"]

\* st.rerun(): the script runs again on the state the handler left
Shows(ss, n) ==
    /\ session_state' = Render(ss, n).session_state
    /\ page' = Render(ss, n).page

Idle ==
    UNCHANGED <<df, correct_idx, requested, difficulty_arg, pc, total_options,
                difficulty, selected_set, rng, added, result, error, twin>>

\* the page is opened, or re-run by a widget other than the buttons
Rerun ==
    /\ Shows(session_state, total_available)
    /\ UNCHANGED total_available
    /\ Idle

\* reset_session: the metadata cache and the session state are cleared, so
\* the next run reads the labels again
reset_session(selected_difficulty) ==
    /\ total_available' \in 0..MaxLabels
    /\ Shows(Cleared(selected_difficulty), total_available')

\* select_difficulty with another value chosen in the sidebar
SelectDifficulty ==
    /\ page # "none"
    /\ \E i \in 1..Len(DIFFICULTY_ORDER) :
          /\ DIFFICULTY_ORDER[i] # session_state.difficulty
          /\ reset_session(DIFFICULTY_ORDER[i])
    /\ Idle

\* the Submit button of the question page
Submit ==
    /\ page = "question"
    /\ \E selected \in Selections :
          LET s1 == handle_submission(session_state, selected)
              s2 == IF s1.score >= 60 /\ ~s1.ended_early
                    THEN [s1 EXCEPT !.ended_early_allowed = TRUE] ELSE s1
          IN Shows(s2, total_available)
    /\ UNCHANGED total_available
    /\ Idle

\* the End Quiz button of the question page, clickable when not disabled
EndQuiz ==
    /\ page = "question"
    /\ can_end(session_state)
    /\ Shows([session_state EXCEPT !.ended_early = TRUE], total_available)
    /\ UNCHANGED total_available
    /\ Idle

\* the Restart button of the summary page
Restart ==
    /\ page = "summary"
    /\ reset_session(session_state.difficulty)
    /\ Idle

NextQuiz ==
    \/ Rerun
    \/ SelectDifficulty
    \/ Submit
    \/ EndQuiz
    \/ Restart

\* a browser session that has not run the script yet; no call in progress
InitQuiz ==
    /\ session_state = Cleared(medium)
    /\ page = "none"
    /\ total_available \in 0..MaxLabels
    /\ df = <<>>
    /\ correct_idx = 0
    /\ requested = 1
    /\ difficulty_arg = medium
    /\ pc = "start"
    /\ total_options = 0
    /\ difficulty = <<>>
    /\ selected_set = {}
    /\ rng = 0
    /\ added = NoAdded
    /\ result = <<>>
    /\ error = "none"
    /\ twin = NewCall(medium, "off")

SpecQuiz == InitQuiz /\ [][NextQuiz]_vars

SpecTwin == InitTwin /\ [][Next]_vars

TypeOK ==
    /\ pc \in {"start", "same_make", "same_model", "same_year", "fill", "finish",
               "returned", "raised"}
    /\ error \in {"none", "ValueError", "KeyError", "RuntimeError"}
    /\ selected_set \subseteq Index(df)
    /\ rng \in Nat
    /\ twin.pc \in {"off", pc}

(* ======================= properties ======================= *)
Done == pc \in {"returned", "raised"}

ValidCall == Len(df) > 0 /\ correct_idx \in Index(df)

\* result[i] is the row_idx of the i-th returned OptionItem
RowIds == { result[i] : i \in 1..Len(result) }

\* C1 as stated: for every non-empty dataset holding correct_id the call
\* returns a list of length max(2, min(total_options, |dataset|)).
C1_AnyNonEmptyDataset ==
    (Done /\ ValidCall) =>
        (pc = "returned" /\ Len(result) = Max(2, Min(requested, Len(df))))

\* C1 amended: for every dataset of at least two records holding correct_id
\* the call returns a list of length max(2, min(total_options, |dataset|)).
C1_ReturnedLength ==
    (Done /\ ValidCall /\ Len(df) >= 2) =>
        (pc = "returned" /\ Len(result) = Max(2, Min(requested, Len(df))))

C1_Witness ==
    pc = "returned" /\ Len(df) = 3 /\ requested = 1 /\ Len(result) = 2

\* C2: a returned list holds exactly one OptionItem whose row_idx is
\* correct_id.
C2_CorrectExactlyOnce ==
    pc = "returned" =>
        Cardinality({ i \in 1..Len(result) : result[i] = correct_idx }) = 1

C2_Witness ==
    /\ pc = "returned"
    /\ Len(result) = 3
    /\ Options(df, result)[3].row_idx = correct_idx
    /\ added.fill # {}

\* C3: the row_idx values of a returned list are pairwise distinct, and no
\* identifier is selected twice: the sub-phases and the fill phase add
\* disjoint sets of identifiers, none of them the correct one.
C3_DistinctIds ==
    /\ pc = "returned" => Cardinality(RowIds) = Len(result)
    /\ \A p, q \in DOMAIN added : p # q => added[p] \cap added[q] = {}
    /\ \A p \in DOMAIN added : correct_idx \notin added[p]

C3_Witness ==
    /\ pc = "returned"
    /\ Len(result) = 4
    /\ added.same_make # {}
    /\ added.same_year # {}
    /\ added.fill # {}

\* C4 as stated: for every non-empty dataset holding correct_id, a request
\* for more options than the dataset has records returns as many options as
\* there are records and raises nothing.
C4_AnyNonEmptyDataset ==
    (Done /\ ValidCall /\ requested > Len(df)) =>
        (pc = "returned" /\ error = "none" /\ Len(result) = Len(df))

\* C4 amended: for every dataset of at least two records holding
\* correct_id, a request for more options than the dataset has records
\* returns as many options as there are records and raises nothing.
C4_ClampToDataset ==
    (Done /\ ValidCall /\ Len(df) >= 2 /\ requested > Len(df)) =>
        (pc = "returned" /\ error = "none" /\ Len(result) = Len(df)
         /\ RowIds = Index(df))

C4_Witness ==
    pc = "returned" /\ Len(df) = 3 /\ requested = 4 /\ Len(result) = 3

\* C5: on a dataset of exactly one record, the correct one, the call raises
\* RuntimeError for every total_options >= 2 and returns no list.
C5_SingleRecordRaises ==
    (Done /\ Len(df) = 1 /\ correct_idx = 0 /\ requested >= 2) =>
        (pc = "raised" /\ error = "RuntimeError" /\ result = <<>>)

C5_Witness ==
    /\ pc = "raised"
    /\ error = "RuntimeError"
    /\ Len(df) = 1
    /\ requested = 3
    /\ selected_set = {0}

\* C6: when correct_id is not in the non-empty dataset the call raises
\* KeyError, with no candidate selected and no draw taken from the rng.
C6_UnknownRecord ==
    (pc # "start" /\ Len(df) > 0 /\ correct_idx \notin Index(df)) =>
        /\ pc = "raised"
        /\ error = "KeyError"
        /\ selected_set = {}
        /\ added = NoAdded
        /\ rng = 0
        /\ result = <<>>

C6_Witness ==
    pc = "raised" /\ error = "KeyError" /\ Len(df) = 2 /\ correct_idx = 2

\* C7: on an empty dataset the call raises ValueError whatever correct_id,
\* total_options and difficulty are; KeyError is never raised for it.
C7_EmptyDataset ==
    (pc # "start" /\ Len(df) = 0) =>
        (pc = "raised" /\ error = "ValueError" /\ rng = 0 /\ result = <<>>)

C7_Witness ==
    pc = "raised" /\ error = "ValueError" /\ Len(df) = 0 /\ correct_idx = 0

\* C8: with difficulty "easy" in any letter case, every identifier the
\* same_year sub-phase adds belongs to a record of another make than the
\* correct record's.
C8_EasySameYearOtherMake ==
    (ValidCall /\ Lower(difficulty_arg) = easy) =>
        \A idx \in added.same_year :
            Loc(df, idx).make_en # Loc(df, correct_idx).make_en

C8_Witness ==
    /\ difficulty_arg # easy
    /\ Lower(difficulty_arg) = easy
    /\ pc = "returned"
    /\ added.same_year # {}
    /\ \E idx \in Index(df) \ selected_set :
          /\ Loc(df, idx).make_en = Loc(df, correct_idx).make_en
          /\ Loc(df, idx).year = Loc(df, correct_idx).year

C10_UnrecognizedIsMedium ==
    (twin.pc # "off" /\ ~Recognized(difficulty_arg) /\ twin.difficulty_arg = medium) =>
        /\ twin.pc = pc
        /\ twin.total_options = total_options
        /\ twin.selected_set = selected_set
        /\ twin.rng = rng
        /\ twin.result = result
        /\ twin.error = error

C10_Witness ==
    /\ ~Recognized(difficulty_arg)
    /\ twin.difficulty_arg = medium
    /\ pc = "returned"
    /\ twin.pc = "returned"
    /\ Cardinality(added.same_year) = 2
    /\ Len(result) = 3

\* the other records of the correct record's make, and those of another make
SameMakeIds ==
    { idx \in Index(df) \ {correct_idx} :
        Loc(df, idx).make_en = Loc(df, correct_idx).make_en }

OtherMakeIds ==
    { idx \in Index(df) : Loc(df, idx).make_en # Loc(df, correct_idx).make_en }

\* the class the fill phase takes first, and the class it takes last
Preferred ==
    IF difficulty = easy THEN OtherMakeIds
    ELSE IF difficulty = hard THEN SameMakeIds ELSE {}

NonPreferred ==
    IF difficulty = easy THEN SameMakeIds
    ELSE IF difficulty = hard THEN OtherMakeIds ELSE {}

AfterFill == pc \in {"finish", "returned", "raised"}

\* C11: when the fill phase adds a record of the non-preferred class (same
\* make on easy, other make on hard), every record of the preferred class
\* that was not selected before the fill phase has been added by it too.
C11_FillPreferredFirst ==
    (ValidCall /\ AfterFill /\ added.fill \cap NonPreferred # {}) =>
        Preferred \ (selected_set \ added.fill) \subseteq added.fill

C11_Witness ==
    /\ pc = "returned"
    /\ difficulty = easy
    /\ added.fill \cap SameMakeIds # {}
    /\ added.fill \cap OtherMakeIds # {}

QuotaPhases == {"same_make", "same_model", "same_year"}

\* C12: once the call has passed validation, each quota sub-phase has added
\* at most its quota, the selected set never holds more than the clamped
\* total_options, and it is exactly the correct identifier and what the
\* phases added (so no phase added anything beyond the total).
C12_QuotaAndTotalBound ==
    (ValidCall /\ pc # "start") =>
        /\ \A phase \in QuotaPhases :
              Cardinality(added[phase]) <= difficulty_plan(difficulty)[phase]
        /\ Cardinality(selected_set) <= total_options
        /\ Cardinality(selected_set) =
              1 + Cardinality(added.same_make) + Cardinality(added.same_model)
                + Cardinality(added.same_year) + Cardinality(added.fill)

\* the same_make quota is met while a record of the make stays out, and the
\* set is full before the same_year sub-phase while a candidate of it exists
C12_Witness ==
    /\ pc = "returned"
    /\ Cardinality(added.same_make) = difficulty_plan(difficulty).same_make
    /\ SameMakeIds \ selected_set # {}
    /\ Cardinality(selected_set) = total_options
    /\ added.same_year = {}
    /\ \E idx \in Index(df) \ selected_set : SameYearMask(df, correct_idx)[idx]

\* C13: every identifier added by the same_model sub-phase is of a record
\* with the correct record's model and another year.
C13_SameModelOtherYear ==
    ValidCall =>
        \A idx \in added.same_model :
            /\ Loc(df, idx).model_en = Loc(df, correct_idx).model_en
            /\ Loc(df, idx).year # Loc(df, correct_idx).year

\* the sub-phase added a record while one of the same model and year stays out
C13_Witness ==
    /\ pc = "returned"
    /\ added.same_model # {}
    /\ \E idx \in Index(df) \ selected_set :
          /\ Loc(df, idx).model_en = Loc(df, correct_idx).model_en
          /\ Loc(df, idx).year = Loc(df, correct_idx).year

\* C14: with two or more records and the correct identifier present the call
\* never raises RuntimeError and the fill phase leaves the selected set at
\* the clamped total_options; RuntimeError occurs with one record only.
C14_NeverInsufficient ==
    /\ (ValidCall /\ Len(df) >= 2) =>
          /\ error # "RuntimeError"
          /\ AfterFill => Cardinality(selected_set) = total_options
    /\ error = "RuntimeError" => Len(df) = 1

\* the fill phase supplied the one identifier that was missing
C14_Witness ==
    /\ pc = "returned"
    /\ Len(df) >= 2
    /\ Cardinality(added.fill) = 1
    /\ Cardinality(selected_set) = total_options

====
